---------------------------- MODULE Spec2Model ----------------------------
(***************************************************************************)
(* The lifecycle of the EventMesh ("beb") Commander of the event publisher *)
(* proxy: pkg/commander/eventmesh/eventmesh.go.                            *)
(*                                                                         *)
(* One Commander instance is modelled.  Init and Stop are single steps;    *)
(* Start is a straight-line function that blocks in the handler, so every  *)
(* invocation of Start is a small process with a program counter, one step *)
(* per statement group of the source.  The collaborators that live outside *)
(* eventmesh.go (envconfig, the informer wait, the handler, the signal     *)
(* context) are modelled by what their call site can observe of them.      *)
(***************************************************************************)
EXTENDS Naturals, Sequences, FiniteSets

\* Number of invocations of Start on the one Commander (they may overlap).
MaxStarts == 2

Starts == 1..MaxStarts

\* c.cancel is nil until Start assigns it (the zero value of a func field).
NilCancel == 0

VARIABLES
  envCfg,        \* *c.envCfg: the config object, allocated by NewCommander
  initResult,    \* what the last Init returned (None before the first)
  cancel,        \* c.cancel: NilCancel, or i for the cancel func of Start i's ctx
  pc,            \* pc[i]: where invocation i of Start stands
  result,        \* result[i]: how invocation i of Start ended (None while it runs)
  fatal,         \* fatal[i]: the fatal condition invocation i met, "none" if none
  client,        \* client[i]: the auth client of invocation i: "none", "open", "closed"
  applicationLister, \* applicationLister[i]: "unset", "nil" or "lister"
  cacheSynced,   \* cacheSynced[i]: the informer cache of invocation i reports synced
  ctxCancelled,  \* ctxCancelled[i]: the cancel func of invocation i's ctx was called
  handlerCtx,    \* handlerCtx[i]: the context invocation i's handler serves on (0: none)
  serveCount,    \* serveCount[i]: how often invocation i entered the handler's Start
  handlerRunning, \* handlerRunning[i]: the handler's Start is entered and has not returned
  built,         \* built[i]: what invocation i has constructed so far, in order
  signalled,     \* the process received its shutdown signal
  alive,         \* the process has not exited
  stopResult,    \* how the last Stop ended (None before the first)
  consecStops    \* Stop calls made in sequence, nothing else in between: 0, 1,
                 \* or 2 for two or more

vars == <<envCfg, initResult, cancel, pc, result, fatal, client, applicationLister,
          cacheSynced, ctxCancelled, handlerCtx, serveCount, handlerRunning, built,
          signalled, alive, stopResult, consecStops>>

startVars == <<pc, result, fatal, client, applicationLister, cacheSynced,
               handlerCtx, serveCount, handlerRunning, built>>

-----------------------------------------------------------------------------
(* Constants of the source *)

backend == "beb"

\* backend + "-commander": a string is modelled as the sequence of its parts.
commanderName == <<backend, "-commander">>

\* What a call hands back to its caller: it returns nil or an error, it
\* panics, or it ends the process (os.Exit); "none" while it has not ended.
Ret(kind, msg) == [kind |-> kind, msg |-> msg]
None == Ret("none", <<>>)
Nil == Ret("nil", <<>>)
Panic == Ret("panic", <<>>)
Exit == Ret("exit", <<>>)

\* xerrors.Errorf("<msg> %s : %v", commanderName, err)
Errorf(msg, name, err) == Ret("error", <<msg>> \o name \o <<" : ", err>>)

IsError(r) == r.kind = "error"

\* The error text contains the commander's name.
NamesCommander(r) ==
  \E k \in 1..(Len(r.msg) - 1) : SubSeq(r.msg, k, k + 1) = commanderName

-----------------------------------------------------------------------------
(* Init: envconfig.Process("", c.envCfg) *)

\* The fields of env.EventMeshConfig that the Commander reads, in struct order.
Fields == <<"Port", "EventMeshPublishURL", "ApplicationCRDEnabled">>

\* `required:"true"` struct tags.
Required == [f \in {"Port", "EventMeshPublishURL", "ApplicationCRDEnabled"} |->
               f = "EventMeshPublishURL"]

\* `default:"..."` struct tags ("absent": the field has none).
Default == [f \in {"Port", "EventMeshPublishURL", "ApplicationCRDEnabled"} |->
              CASE f = "Port" -> "8080"
                [] f = "ApplicationCRDEnabled" -> "true"
                [] OTHER -> "absent"]

\* new(env.EventMeshConfig): every field holds its zero value.
ZeroCfg == [Port |-> 0, EventMeshPublishURL |-> "", ApplicationCRDEnabled |-> FALSE]

\* Whether the raw text of an environment variable parses as the field's type.
Parses(f, raw) ==
  CASE f = "Port" -> raw \in {"8080", "9090"}
    [] f = "ApplicationCRDEnabled" -> raw \in {"true", "false"}
    [] OTHER -> TRUE

\* The typed value of a raw text that parses.
Parse(f, raw) ==
  CASE f = "Port" -> (IF raw = "8080" THEN 8080 ELSE 9090)
    [] f = "ApplicationCRDEnabled" -> (raw = "true")
    [] OTHER -> raw

\* envconfig.Process: the fields are set one after the other, in place; the
\* first missing required key or unparsable value ends the call with an error
\* and leaves the fields set so far as they are.
RECURSIVE Process(_, _, _)
Process(env, cfg, k) ==
  IF k > Len(Fields) THEN [cfg |-> cfg, err |-> "nil"]
  ELSE LET f == Fields[k]
           raw == IF env[f] = "absent" THEN Default[f] ELSE env[f]
       IN IF env[f] = "absent" /\ Required[f]
            THEN [cfg |-> cfg, err |-> "required key missing value"]
          ELSE IF raw = "absent" THEN Process(env, cfg, k + 1)
          ELSE IF ~Parses(f, raw)
            THEN [cfg |-> cfg, err |-> "converting to type"]
          ELSE Process(env, [cfg EXCEPT ![f] = Parse(f, raw)], k + 1)

\* The environments the process may be started in: the port is left to its
\* default, the required URL is set or missing, the flag is absent,
\* well-formed or malformed.
Envs == [Port : {"absent"},
         EventMeshPublishURL : {"absent", "https://ems"},
         ApplicationCRDEnabled : {"absent", "false", "maybe"}]

Init(env) ==
  /\ alive
  /\ LET r == Process(env, envCfg, 1)
     IN /\ envCfg' = r.cfg
        /\ initResult' = IF r.err # "nil"
                           THEN Errorf("failed to read configuration for ", commanderName, r.err)
                           ELSE Nil
  /\ consecStops' = 0
  /\ UNCHANGED <<cancel, ctxCancelled, signalled, alive, stopResult>>
  /\ UNCHANGED startVars

-----------------------------------------------------------------------------
(* NewCommander *)

NewCommander ==
  /\ envCfg = ZeroCfg
  /\ initResult = None
  /\ cancel = NilCancel
  /\ pc = [i \in Starts |-> "idle"]
  /\ result = [i \in Starts |-> None]
  /\ fatal = [i \in Starts |-> "none"]
  /\ client = [i \in Starts |-> "none"]
  /\ applicationLister = [i \in Starts |-> "unset"]
  /\ cacheSynced = [i \in Starts |-> FALSE]
  /\ ctxCancelled = [i \in Starts |-> FALSE]
  /\ handlerCtx = [i \in Starts |-> 0]
  /\ serveCount = [i \in Starts |-> 0]
  /\ handlerRunning = [i \in Starts |-> FALSE]
  /\ built = [i \in Starts |-> <<>>]
  /\ signalled = FALSE
  /\ alive = TRUE
  /\ stopResult = None
  /\ consecStops = 0

-----------------------------------------------------------------------------
(* Start: one step per statement group; i is the invocation *)

\* ctx.Done() of the lifecycle context created by invocation c:
\* Mutant: the lifecycle context has no parent; only its own cancel func ends it.
Done_NoParent(c) == c \in Starts /\ ctxCancelled[c]

\* context.WithCancel over signals.NewContext() is done once its cancel func
\* was called or its parent, the context of the process's shutdown signal, is
\* done.  Context 0 is none of them and is never done.
Done(c) == c \in Starts /\ (ctxCancelled[c] \/ signalled)

\* The invocation ended: it returned or panicked (its deferred calls ran), or
\* it ended the process (they did not).
Return(i, r) ==
  /\ pc' = [pc EXCEPT ![i] = "done"]
  /\ result' = [result EXCEPT ![i] = r]

\* defer client.CloseIdleConnections(), run when Start returns or panics.
RunDeferred(i) ==
  client' = [client EXCEPT ![i] = IF client[i] = "open" THEN "closed" ELSE client[i]]

\* Invocation i has constructed `what`, after all it constructed before.
Build(i, what) == built' = [built EXCEPT ![i] = Append(@, what)]

\* os.Exit from inside a callee: the process is gone, no deferred call runs.
Die(i, why) ==
  /\ Return(i, Exit)
  /\ fatal' = [fatal EXCEPT ![i] = why]
  /\ alive' = FALSE
  /\ UNCHANGED <<client, built>>

\* Lines 66-70: log the configuration, receiver.NewHTTPMessageReceiver(Port).
\* Invocations are numbered in the order in which they are made.  Start has no
\* guard of its own; the caller's discipline is that Start is not called while
\* another Start is still building the pipeline, so a further invocation is
\* made only when every earlier one is blocked in the handler or has ended.
StartReceiver(i) ==
  /\ alive
  /\ pc[i] = "idle"
  /\ \A j \in Starts : j < i => pc[j] \in {"serving", "done"}
  /\ pc' = [pc EXCEPT ![i] = "receiver"]
  /\ consecStops' = 0
  /\ UNCHANGED <<envCfg, initResult, cancel, ctxCancelled, signalled, alive, stopResult>>
  /\ UNCHANGED <<result, fatal, client, applicationLister, cacheSynced, handlerCtx, serveCount>>
  /\ Build(i, "receiver")
  /\ UNCHANGED handlerRunning

\* Lines 72-74: ctx, c.cancel = context.WithCancel(signals.NewContext()).
StartContext(i) ==
  /\ alive
  /\ pc[i] = "receiver"
  /\ pc' = [pc EXCEPT ![i] = "ctx"]
  /\ cancel' = i
  /\ consecStops' = 0
  /\ UNCHANGED <<envCfg, initResult, ctxCancelled, signalled, alive, stopResult>>
  /\ UNCHANGED <<result, fatal, client, applicationLister, cacheSynced, handlerCtx, serveCount>>
  /\ Build(i, "ctx")
  /\ UNCHANGED handlerRunning

\* Lines 76-78: client := oauth.NewClient(ctx, c.envCfg); the close is deferred.
StartClient(i) ==
  /\ alive
  /\ pc[i] = "ctx"
  /\ pc' = [pc EXCEPT ![i] = "client"]
  /\ client' = [client EXCEPT ![i] = "open"]
  /\ consecStops' = 0
  /\ UNCHANGED <<envCfg, initResult, cancel, ctxCancelled, signalled, alive, stopResult>>
  /\ UNCHANGED <<result, fatal, applicationLister, cacheSynced, handlerCtx, serveCount>>
  /\ Build(i, "client")
  /\ UNCHANGED handlerRunning

\* Mutant: the sender is built before the client it sends with.
StartSender_BeforeClient(i) ==
  /\ alive
  /\ pc[i] = "ctx"
  /\ pc' = [pc EXCEPT ![i] = "sender"]
  /\ consecStops' = 0
  /\ UNCHANGED <<envCfg, initResult, cancel, ctxCancelled, signalled, alive, stopResult>>
  /\ UNCHANGED <<result, fatal, client, applicationLister, cacheSynced, handlerCtx, serveCount>>
  /\ Build(i, "sender")
  /\ UNCHANGED handlerRunning

\* Lines 80-81: eventmesh.NewSender(publish URL, client, logger).
StartSender(i) ==
  /\ alive
  /\ pc[i] = "client"
  /\ pc' = [pc EXCEPT ![i] = "sender"]
  /\ consecStops' = 0
  /\ UNCHANGED <<envCfg, initResult, cancel, ctxCancelled, signalled, alive, stopResult>>
  /\ UNCHANGED <<result, fatal, client, applicationLister, cacheSynced, handlerCtx, serveCount>>
  /\ Build(i, "sender")
  /\ UNCHANGED handlerRunning

\* config.GetConfigOrDie(): the config, or os.Exit(1) when none can be loaded.
GetConfigOrDie(ok) == IF ok THEN "config" ELSE "exit"

\* Lines 83-84: k8sConfig := config.GetConfigOrDie().
StartClusterConfig(i) ==
  /\ alive
  /\ pc[i] = "sender"
  /\ \E ok \in BOOLEAN :
       IF GetConfigOrDie(ok) = "exit"
         THEN Die(i, "clusterConfig")
         ELSE /\ pc' = [pc EXCEPT ![i] = "k8sConfig"]
              /\ Build(i, "k8sConfig")
              /\ UNCHANGED <<result, fatal, client, alive>>
  /\ consecStops' = 0
  /\ UNCHANGED <<envCfg, initResult, cancel, ctxCancelled, signalled, stopResult>>
  /\ UNCHANGED <<applicationLister, cacheSynced, handlerCtx, serveCount>>
  /\ UNCHANGED handlerRunning

\* dynamic.NewForConfigOrDie(k8sConfig): the client, or a panic.
NewForConfigOrDie(ok) == IF ok THEN "client" ELSE "panic"

\* Mutant: the application lister is built whatever the flag says.
StartApplicationLister_Always(i) ==
  /\ alive
  /\ pc[i] = "k8sConfig"
  /\ \E ok \in BOOLEAN :
       IF NewForConfigOrDie(ok) = "panic"
         THEN /\ Return(i, Panic)
              /\ RunDeferred(i)
              /\ fatal' = [fatal EXCEPT ![i] = "dynamicClient"]
              /\ UNCHANGED <<applicationLister, built>>
         ELSE /\ pc' = [pc EXCEPT ![i] = "applicationLister"]
              /\ applicationLister' = [applicationLister EXCEPT ![i] = "lister"]
              /\ Build(i, "applicationLister")
              /\ UNCHANGED <<result, fatal, client>>
  /\ consecStops' = 0
  /\ UNCHANGED <<envCfg, initResult, cancel, ctxCancelled, signalled, alive, stopResult>>
  /\ UNCHANGED <<cacheSynced, handlerCtx, serveCount, handlerRunning>>

\* Lines 86-94: the application lister, only if ApplicationCRDEnabled.
StartApplicationLister(i) ==
  /\ alive
  /\ pc[i] = "k8sConfig"
  /\ IF envCfg.ApplicationCRDEnabled
       THEN \E ok \in BOOLEAN :
              IF NewForConfigOrDie(ok) = "panic"
                THEN /\ Return(i, Panic)
                     /\ RunDeferred(i)
                     /\ fatal' = [fatal EXCEPT ![i] = "dynamicClient"]
                     /\ UNCHANGED <<applicationLister, built>>
                ELSE /\ pc' = [pc EXCEPT ![i] = "applicationLister"]
                     /\ applicationLister' = [applicationLister EXCEPT ![i] = "lister"]
                     /\ Build(i, "applicationLister")
                     /\ UNCHANGED <<result, fatal, client>>
       ELSE /\ pc' = [pc EXCEPT ![i] = "applicationLister"]
            /\ applicationLister' = [applicationLister EXCEPT ![i] = "nil"]
            /\ Build(i, "applicationLister")
            /\ UNCHANGED <<result, fatal, client>>
  /\ consecStops' = 0
  /\ UNCHANGED <<envCfg, initResult, cancel, ctxCancelled, signalled, alive, stopResult>>
  /\ UNCHANGED <<cacheSynced, handlerCtx, serveCount>>
  /\ UNCHANGED handlerRunning

\* Lines 96-101: legacy.NewTransformer(namespace, prefix, applicationLister).
StartLegacyTransformer(i) ==
  /\ alive
  /\ pc[i] = "applicationLister"
  /\ pc' = [pc EXCEPT ![i] = "legacyTransformer"]
  /\ consecStops' = 0
  /\ UNCHANGED <<envCfg, initResult, cancel, ctxCancelled, signalled, alive, stopResult>>
  /\ UNCHANGED <<result, fatal, client, applicationLister, cacheSynced, handlerCtx, serveCount>>
  /\ Build(i, "legacyTransformer")
  /\ UNCHANGED handlerRunning

\* Lines 103-111: the subscription informer factory, its lister, the processor.
StartSubscribedProcessor(i) ==
  /\ alive
  /\ pc[i] = "legacyTransformer"
  /\ pc' = [pc EXCEPT ![i] = "subscribedProcessor"]
  /\ consecStops' = 0
  /\ UNCHANGED <<envCfg, initResult, cancel, ctxCancelled, signalled, alive, stopResult>>
  /\ UNCHANGED <<result, fatal, client, applicationLister, cacheSynced, handlerCtx, serveCount>>
  /\ Build(i, "subscribedProcessor")
  /\ UNCHANGED handlerRunning

\* informers.WaitForCacheSyncOrDie(ctx, factory, logger): returns once the
\* cache reports synced; a wait that ends unsynced is fatal to the process.
WaitForCacheSyncOrDie(synced) == IF synced THEN "return" ELSE "exit"

\* Mutant: the outcome of the wait is ignored and Start goes on.
StartWaitForCacheSync_NoGate(i) ==
  /\ alive
  /\ pc[i] = "subscribedProcessor"
  /\ pc' = [pc EXCEPT ![i] = "synced"]
  /\ consecStops' = 0
  /\ UNCHANGED <<envCfg, initResult, cancel, ctxCancelled, signalled, alive, stopResult>>
  /\ UNCHANGED <<result, fatal, client, applicationLister, cacheSynced, handlerCtx, serveCount>>
  /\ Build(i, "cacheSync")
  /\ UNCHANGED handlerRunning

\* Mutant: a wait without the fatal end, which returns only once synced.
StartWaitForCacheSync_Blocks(i) ==
  /\ alive
  /\ pc[i] = "subscribedProcessor"
  /\ cacheSynced[i]
  /\ pc' = [pc EXCEPT ![i] = "synced"]
  /\ consecStops' = 0
  /\ UNCHANGED <<envCfg, initResult, cancel, ctxCancelled, signalled, alive, stopResult>>
  /\ UNCHANGED <<result, fatal, client, applicationLister, cacheSynced, handlerCtx, serveCount>>
  /\ Build(i, "cacheSync")
  /\ UNCHANGED handlerRunning

\* Lines 112-115: wait for the informer cache, or die.
StartWaitForCacheSync(i) ==
  /\ alive
  /\ pc[i] = "subscribedProcessor"
  /\ IF WaitForCacheSyncOrDie(cacheSynced[i]) = "exit"
       THEN Die(i, "cacheSync")
       ELSE /\ pc' = [pc EXCEPT ![i] = "synced"]
            /\ Build(i, "cacheSync")
            /\ UNCHANGED <<result, fatal, client, alive>>
  /\ consecStops' = 0
  /\ UNCHANGED <<envCfg, initResult, cancel, ctxCancelled, signalled, stopResult>>
  /\ UNCHANGED <<applicationLister, cacheSynced, handlerCtx, serveCount>>
  /\ UNCHANGED handlerRunning

\* Lines 117-125: eventtype.NewCleaner, cleaner.NewEventMeshCleaner,
\* builder.NewEventMeshBuilder.
StartBuilder(i) ==
  /\ alive
  /\ pc[i] = "synced"
  /\ pc' = [pc EXCEPT ![i] = "ceBuilder"]
  /\ consecStops' = 0
  /\ UNCHANGED <<envCfg, initResult, cancel, ctxCancelled, signalled, alive, stopResult>>
  /\ UNCHANGED <<result, fatal, client, applicationLister, cacheSynced, handlerCtx, serveCount>>
  /\ Build(i, "ceBuilder")
  /\ UNCHANGED handlerRunning

\* Mutant: the handler is started on a context of its own
\* (context.Background()) instead of the lifecycle context.
StartHandler_Background(i) ==
  /\ alive
  /\ pc[i] = "ceBuilder"
  /\ pc' = [pc EXCEPT ![i] = "serving"]
  /\ handlerCtx' = [handlerCtx EXCEPT ![i] = 0]
  /\ serveCount' = [serveCount EXCEPT ![i] = @ + 1]
  /\ consecStops' = 0
  /\ UNCHANGED <<envCfg, initResult, cancel, ctxCancelled, signalled, alive, stopResult>>
  /\ UNCHANGED <<result, fatal, client, applicationLister, cacheSynced>>
  /\ Build(i, "handler")
  /\ handlerRunning' = [handlerRunning EXCEPT ![i] = TRUE]

\* Lines 127-142: handler.New(...).Start(ctx) is entered and blocks.
StartHandler(i) ==
  /\ alive
  /\ pc[i] = "ceBuilder"
  /\ pc' = [pc EXCEPT ![i] = "serving"]
  /\ handlerCtx' = [handlerCtx EXCEPT ![i] = i]
  /\ serveCount' = [serveCount EXCEPT ![i] = @ + 1]
  /\ consecStops' = 0
  /\ UNCHANGED <<envCfg, initResult, cancel, ctxCancelled, signalled, alive, stopResult>>
  /\ UNCHANGED <<result, fatal, client, applicationLister, cacheSynced>>
  /\ Build(i, "handler")
  /\ handlerRunning' = [handlerRunning EXCEPT ![i] = TRUE]

\* handler.Start(ctx): what the blocked call may hand back now.  It serves
\* until its context is done and then returns nil; serving may fail at any
\* time with an error.
HandlerStart(done) == IF done THEN {"nil", "serve failed"} ELSE {"serve failed"}

\* Mutant: the handler's error is returned as it is, not wrapped.
StartHandlerFailed_Unwrapped(i) ==
  /\ alive
  /\ pc[i] = "serving"
  /\ "serve failed" \in HandlerStart(Done(handlerCtx[i]))
  /\ Return(i, Ret("error", <<"serve failed">>))
  /\ RunDeferred(i)
  /\ fatal' = [fatal EXCEPT ![i] = "serve"]
  /\ consecStops' = 0
  /\ UNCHANGED <<envCfg, initResult, cancel, ctxCancelled, signalled, alive, stopResult>>
  /\ UNCHANGED <<applicationLister, cacheSynced, handlerCtx, serveCount>>
  /\ handlerRunning' = [handlerRunning EXCEPT ![i] = FALSE]
  /\ UNCHANGED built

\* Mutant: on a serve error the handler is started again (once more at most).
StartHandlerFailed_Retry(i) ==
  /\ alive
  /\ pc[i] = "serving"
  /\ "serve failed" \in HandlerStart(Done(handlerCtx[i]))
  /\ IF serveCount[i] < 2
       THEN /\ pc' = [pc EXCEPT ![i] = "ceBuilder"]
            /\ UNCHANGED <<result, client>>
       ELSE /\ Return(i, Errorf("failed to start handler for ", commanderName, "serve failed"))
            /\ RunDeferred(i)
  /\ fatal' = [fatal EXCEPT ![i] = "serve"]
  /\ consecStops' = 0
  /\ UNCHANGED <<envCfg, initResult, cancel, ctxCancelled, signalled, alive, stopResult>>
  /\ UNCHANGED <<applicationLister, cacheSynced, handlerCtx, serveCount>>
  /\ handlerRunning' = [handlerRunning EXCEPT ![i] = FALSE]
  /\ UNCHANGED built

\* Lines 142-144: the handler returned an error; Start wraps and returns it.
StartHandlerFailed(i) ==
  /\ alive
  /\ pc[i] = "serving"
  /\ "serve failed" \in HandlerStart(Done(handlerCtx[i]))
  /\ Return(i, Errorf("failed to start handler for ", commanderName, "serve failed"))
  /\ RunDeferred(i)
  /\ fatal' = [fatal EXCEPT ![i] = "serve"]
  /\ consecStops' = 0
  /\ UNCHANGED <<envCfg, initResult, cancel, ctxCancelled, signalled, alive, stopResult>>
  /\ UNCHANGED <<applicationLister, cacheSynced, handlerCtx, serveCount>>
  /\ handlerRunning' = [handlerRunning EXCEPT ![i] = FALSE]
  /\ UNCHANGED built

\* Mutant: Start returns nil without waiting for the handler to return.
StartHandlerDone_NoWait(i) ==
  /\ alive
  /\ pc[i] = "serving"
  /\ Return(i, Nil)
  /\ RunDeferred(i)
  /\ consecStops' = 0
  /\ UNCHANGED <<envCfg, initResult, cancel, ctxCancelled, signalled, alive, stopResult>>
  /\ UNCHANGED <<fatal, applicationLister, cacheSynced, handlerCtx, serveCount>>
  /\ UNCHANGED <<handlerRunning, built>>

\* Lines 145-147: the handler returned nil; Start logs and returns nil.
StartHandlerDone(i) ==
  /\ alive
  /\ pc[i] = "serving"
  /\ "nil" \in HandlerStart(Done(handlerCtx[i]))
  /\ Return(i, Nil)
  /\ RunDeferred(i)
  /\ consecStops' = 0
  /\ UNCHANGED <<envCfg, initResult, cancel, ctxCancelled, signalled, alive, stopResult>>
  /\ UNCHANGED <<fatal, applicationLister, cacheSynced, handlerCtx, serveCount>>
  /\ handlerRunning' = [handlerRunning EXCEPT ![i] = FALSE]
  /\ UNCHANGED built

\* The statements of Start, in the order the code has them.
Order == <<"receiver", "ctx", "client", "sender", "k8sConfig", "applicationLister",
           "legacyTransformer", "subscribedProcessor", "cacheSync", "ceBuilder",
           "handler">>

-----------------------------------------------------------------------------
(* Stop *)

\* Lines 150-153: c.cancel(); return nil.  Calling a nil func panics.
Stop ==
  /\ alive
  /\ IF cancel = NilCancel
       THEN /\ stopResult' = Panic
            /\ UNCHANGED ctxCancelled
       ELSE /\ ctxCancelled' = [ctxCancelled EXCEPT ![cancel] = TRUE]
            /\ stopResult' = Nil
  /\ consecStops' = IF consecStops = 0 THEN 1 ELSE 2
  /\ UNCHANGED <<envCfg, initResult, cancel, signalled, alive>>
  /\ UNCHANGED startVars

-----------------------------------------------------------------------------
(* The environment *)

\* The process receives SIGTERM or SIGINT.
Signal ==
  /\ alive
  /\ ~signalled
  /\ signalled' = TRUE
  /\ consecStops' = 0
  /\ UNCHANGED <<envCfg, initResult, cancel, ctxCancelled, alive, stopResult>>
  /\ UNCHANGED startVars

\* The subscription informer of invocation i has filled its cache.
InformerSynced(i) ==
  /\ alive
  /\ pc[i] = "subscribedProcessor"
  /\ ~cacheSynced[i]
  /\ cacheSynced' = [cacheSynced EXCEPT ![i] = TRUE]
  /\ consecStops' = 0
  /\ UNCHANGED <<envCfg, initResult, cancel, ctxCancelled, signalled, alive, stopResult>>
  /\ UNCHANGED <<pc, result, fatal, client, applicationLister, handlerCtx, serveCount>>
  /\ UNCHANGED <<handlerRunning, built>>

-----------------------------------------------------------------------------
(* The specifications *)

Next ==
  \/ \E env \in Envs : Init(env)
  \/ \E i \in Starts : StartReceiver(i)
  \/ \E i \in Starts : StartContext(i)
  \/ \E i \in Starts : StartClient(i)
  \/ \E i \in Starts : StartSender(i)
  \/ \E i \in Starts : StartClusterConfig(i)
  \/ \E i \in Starts : StartApplicationLister(i)
  \/ \E i \in Starts : StartLegacyTransformer(i)
  \/ \E i \in Starts : StartSubscribedProcessor(i)
  \/ \E i \in Starts : StartWaitForCacheSync(i)
  \/ \E i \in Starts : StartBuilder(i)
  \/ \E i \in Starts : StartHandler(i)
  \/ \E i \in Starts : StartHandlerFailed(i)
  \/ \E i \in Starts : StartHandlerDone(i)
  \/ Stop
  \/ Signal
  \/ \E i \in Starts : InformerSynced(i)

Spec == NewCommander /\ [][Next]_vars

\* The steps by which a started invocation of Start goes on by itself: the
\* next statement group, the end of the cache-sync wait (synced or timed out),
\* and the return of a handler whose context is done.
Proceed(i) ==
  \/ StartContext(i)
  \/ StartClient(i)
  \/ StartSender(i)
  \/ StartClusterConfig(i)
  \/ StartApplicationLister(i)
  \/ StartLegacyTransformer(i)
  \/ StartSubscribedProcessor(i)
  \/ StartWaitForCacheSync(i)
  \/ StartBuilder(i)
  \/ StartHandler(i)
  \/ StartHandlerDone(i)

\* A started invocation of Start keeps running: its goroutine is scheduled.
\* Nothing obliges a caller to call Init, Start or Stop, the cache to sync,
\* the signal to arrive or the handler to fail.
Fairness == \A i \in Starts : WF_vars(Proceed(i))

FairSpec == Spec /\ Fairness

-----------------------------------------------------------------------------
(* The claims *)

\* Every step but Stop resets consecStops, so a step that leaves it at 1 or
\* more is a call of Stop, and one that finds it at 1 or more is a call of
\* Stop that follows a call of Stop.

\* Some invocation of Start is blocked in the handler: the Commander is Running.
Running == \E j \in Starts : pc[j] = "serving"

\* C1: on a Commander whose Start has not yet created the lifecycle context
\* (c.cancel is still nil), a call of Stop returns nil without panicking and
\* changes nothing else.
C1_StopBeforeStartIsNoOp ==
  [][(cancel = NilCancel /\ consecStops' >= 1)
       => (/\ stopResult' = Nil
           /\ UNCHANGED <<envCfg, initResult, cancel, ctxCancelled, signalled, alive>>
           /\ UNCHANGED startVars)]_vars

\* C2: while the Commander is Running, no step of a further Start replaces
\* c.cancel (creates a second lifecycle context) or starts a second handler.
C2_DoubleStartIsNoOp ==
  [][Running => (/\ cancel' = cancel
                 /\ \A i \in Starts : pc[i] # "serving" => pc'[i] # "serving")]_vars

\* C3: the second of two calls of Stop made in sequence finds that the first
\* returned nil, returns nil itself, and changes nothing the first left behind.
C3_StopTwiceIdempotent ==
  [][(consecStops >= 1 /\ consecStops' >= 1)
       => (/\ stopResult = Nil
           /\ stopResult' = Nil
           /\ UNCHANGED <<envCfg, initResult, cancel, ctxCancelled, signalled, alive>>
           /\ UNCHANGED startVars)]_vars

\* C4: an invocation of Start whose handler is serving, or has served, has a
\* subscription informer cache that reported synced.
C4_CacheSyncGate ==
  \A i \in Starts : (pc[i] = "serving" \/ serveCount[i] > 0) => cacheSynced[i]

C4_Witness == \E i \in Starts : pc[i] = "serving" /\ cacheSynced[i]

\* C5: an invocation of Start whose informer cache never reports synced never
\* gets past the cache-sync wait to build and start the handler, and does not
\* stay in the wait for ever: it ends there, fatally.
C5_NeverSyncedStartFails ==
  \A i \in Starts :
    ([](~cacheSynced[i]))
      => /\ [](pc[i] \notin {"synced", "ceBuilder", "serving"} /\ serveCount[i] = 0)
         /\ (pc[i] = "subscribedProcessor") ~> (result[i] = Exit /\ fatal[i] = "cacheSync")

C5_Witness ==
  \E i \in Starts : fatal[i] = "cacheSync" /\ result[i] = Exit /\ ~cacheSynced[i]

\* C6: once Stop has cancelled the lifecycle context of an invocation of Start
\* that is blocked in the handler, that invocation eventually returns (for as
\* long as the process lives), whatever else happens or does not happen.
C6_ShutdownPropagation ==
  \A i \in Starts :
    (pc[i] = "serving" /\ ctxCancelled[i]) ~> (pc[i] = "done" \/ ~alive)

C6_Witness ==
  \E i \in Starts :
    pc[i] = "done" /\ result[i] = Nil /\ ctxCancelled[i] /\ ~signalled

\* C7 as stated: whatever fatal condition an invocation of Start met, it ended
\* by returning an error that names the commander.
C7_FatalReturnedAsError ==
  \A i \in Starts :
    fatal[i] # "none" => (IsError(result[i]) /\ NamesCommander(result[i]))

\* C7 as amended: a handler serve error is returned to the caller as one error
\* that names the commander; the other fatal conditions are not returned: a
\* cluster-config or cache-sync failure ends the process and a dynamic-client
\* failure panics.
C7_FatalOutcomes ==
  \A i \in Starts :
    /\ fatal[i] = "serve" => (IsError(result[i]) /\ NamesCommander(result[i]))
    /\ fatal[i] \in {"clusterConfig", "cacheSync"} => result[i] = Exit
    /\ fatal[i] = "dynamicClient" => result[i] = Panic

C7_Witness ==
  \E i \in Starts : fatal[i] = "serve" /\ IsError(result[i])

\* C8: whenever an invocation of Start has ended after its auth client was
\* constructed, the client's idle connections are closed.
C8_ClientClosedOnEveryExit ==
  \A i \in Starts : (result[i] # None /\ client[i] # "none") => client[i] = "closed"

\* C9: an invocation of Start enters the handler's serve call at most once, and
\* one whose handler returned an error has ended with an error.
C9_ServeErrorEndsRun ==
  \A i \in Starts :
    /\ serveCount[i] <= 1
    /\ fatal[i] = "serve" => (pc[i] = "done" /\ IsError(result[i]))

C9_Witness ==
  \E i \in Starts : fatal[i] = "serve" /\ pc[i] = "done" /\ serveCount[i] = 1

\* C10: an Init that returns an error leaves the config object as it found it,
\* and while the last Init has failed no invocation of Start begins.
C10_ConfigFatality ==
  [][/\ IsError(initResult') => envCfg' = envCfg
     /\ IsError(initResult) => \A i \in Starts : pc[i] = "idle" => pc'[i] = "idle"]_vars

\* C11: once Stop has cancelled a lifecycle context, no later step gives the
\* Commander a fresh context (replaces c.cancel) and no invocation of Start
\* enters the handler: the Commander does not serve again.
C11_CancellationTerminal ==
  [][(\E c \in Starts : ctxCancelled[c])
       => (/\ cancel' = cancel
           /\ \A i \in Starts : pc[i] # "serving" => pc'[i] # "serving")]_vars

\* C14: whenever a handler is serving, the cancel func the Commander holds is
\* the one of the context that handler serves on.
C14_SingleCancellationAuthority ==
  \A i \in Starts : pc[i] = "serving" => cancel = handlerCtx[i]

\* C16: once Init has returned nil, no step (of Start, of Stop, of a further
\* Init) changes a field of the config object.
C16_ConfigImmutable ==
  [][initResult = Nil => envCfg' = envCfg]_vars

\* C17: a Stop that runs while an invocation of Start is in progress, wherever
\* that invocation stands, does not call a nil cancel func: it returns nil.
C17_StopDuringStart ==
  [][(consecStops' >= 1 /\ \E i \in Starts : pc[i] \notin {"idle", "done"})
       => stopResult' = Nil]_vars

\* C12: an invocation of Start builds the application lister (with its dynamic
\* client) exactly if ApplicationCRDEnabled is set; with the flag off that
\* step cannot fail and leaves a nil lister, and with a nil lister the legacy
\* transformer and the cleaner and builder are constructed and the invocation
\* goes on, up to the handler's Start, without ending.
C12_OptionalApplicationLister ==
  [][\A i \in Starts :
       /\ applicationLister'[i] # applicationLister[i]
            => (applicationLister'[i] = "lister" <=> envCfg.ApplicationCRDEnabled)
       /\ (pc[i] = "k8sConfig" /\ pc'[i] # pc[i] /\ ~envCfg.ApplicationCRDEnabled)
            => (pc'[i] = "applicationLister" /\ applicationLister'[i] = "nil")
       /\ (applicationLister[i] = "nil" /\ pc'[i] # pc[i])
            => (/\ pc[i] = "applicationLister" => pc'[i] = "legacyTransformer"
                /\ pc[i] = "synced" => pc'[i] = "ceBuilder"
                /\ pc[i] = "ceBuilder" => pc'[i] = "serving")]_vars

C12_Witness ==
  \E i \in Starts :
    /\ pc[i] = "serving"
    /\ applicationLister[i] = "nil"
    /\ \E j, k \in DOMAIN built[i] :
         built[i][j] = "legacyTransformer" /\ built[i][k] = "ceBuilder"

\* C15: when the process's shutdown signal has fired while an invocation of
\* Start is blocked in the handler, that invocation eventually returns, and
\* returns nil unless the serve call itself failed (for as long as the process
\* lives), whether or not Stop is ever called.
C15_SignalEndsStart ==
  \A i \in Starts :
    (pc[i] = "serving" /\ signalled)
      ~> ((pc[i] = "done" /\ (result[i] = Nil \/ fatal[i] = "serve")) \/ ~alive)

C15_Witness ==
  \E i \in Starts :
    /\ pc[i] = "done" /\ result[i] = Nil /\ serveCount[i] = 1
    /\ signalled /\ ~ctxCancelled[i] /\ stopResult = None

\* C13 as stated: the lifecycle context is the first thing an invocation of
\* Start creates; nothing is constructed before it exists.
C13_ContextFirst ==
  \A i \in Starts : built[i] # <<>> => built[i][1] = "ctx"

\* C13: what an invocation of Start has constructed is always an initial part
\* of the code's order (message receiver, lifecycle context, client, sender,
\* cluster config, application lister, legacy transformer, subscription
\* processor, cache-sync wait, cleaner and builder, handler), and a handler
\* that serves has every step of it behind it.
C13_StartupOrder ==
  \A i \in Starts :
    /\ Len(built[i]) <= Len(Order)
    /\ built[i] = SubSeq(Order, 1, Len(built[i]))
    /\ pc[i] = "serving" => built[i] = Order

C13_Witness == \E i \in Starts : pc[i] = "serving" /\ built[i] = Order

\* C18: an invocation of Start that returned nil has entered the handler's
\* Start, after every step before it, and met no serve error; and no
\* invocation has returned while its handler's Start is still running.
C18_NilOnlyAfterServe ==
  \A i \in Starts :
    /\ result[i] = Nil => (serveCount[i] = 1 /\ fatal[i] = "none" /\ built[i] = Order)
    /\ handlerRunning[i] => (pc[i] = "serving" /\ result[i] = None)

C18_Witness ==
  \E i \in Starts :
    pc[i] = "done" /\ result[i] = Nil /\ serveCount[i] = 1 /\ ~handlerRunning[i]

=============================================================================
